---- MODULE Spec2Model ----
(***************************************************************************)
(* A model of py-zmsg: the JSON-RPC client of zmsg/rpc.py, the memo codec  *)
(* of zmsg/utils.py and the send and receive workflows of zmsg/zmsg.py.    *)
(*                                                                         *)
(* Four kinds of behaviour are modelled, each with its own specification:  *)
(*   RpcSpec   a caller issuing calls through Proxy.call on one client;    *)
(*   Spec      one invocation of Zmsg.send_msg against a node, and         *)
(*   LiveSpec  the same invocation with the scheduling the code has (the   *)
(*             single thread always takes its next step);                  *)
(*   RecvSpec  one invocation of Zmsg.check_msgs against a node;           *)
(*   FnSpec    the side-effect free functions applied to drawn inputs.     *)
(***************************************************************************)
EXTENDS Integers, Sequences, FiniteSets, TLC

VARIABLES
    \* ---- BaseProxy (rpc.py) ----
    id_count,      \* self.__id_count
    requests,      \* the requests written to the connection, in order, each
                   \* with whether the call that wrote it raised
    response,      \* the response object _get_response returned last
    exc,           \* the exception that left the running function, if any
    ret,           \* what Proxy.call returned last
    \* ---- Zmsg.send_msg (zmsg.py) ----
    pc,            \* position in send_msg
    sender,        \* parameter / local `sender`
    amount,        \* parameter `amount`
    msg,           \* parameter `msg`
    unspent,       \* what listunspent returned to find_unspent_taddr
    taddr,         \* local `taddr`
    amounts,       \* local `amounts`
    opid,          \* local `opid`
    status,        \* local `status`
    op_error,      \* response_array[0]['error'] of the last poll
    start_time,    \* local `start_time`
    now,           \* time.time(), in whole seconds
    observed,      \* the statuses the status polls returned, in order
    sleeps,        \* how many times time.sleep(1) ran
    printed,       \* the outcome line send_msg printed, with its value
    \* ---- pure functions on drawn inputs ----
    fn_in,         \* the input drawn
    fn_out,        \* the function's result
    fn_done,       \* whether the function has been applied
    \* ---- Zmsg.check_msgs and received_by_zaddr (zmsg.py) ----
    recv_pc,       \* position in check_msgs
    zaddrs,        \* local `zaddrs` of check_msgs
    zi,            \* index of the `for zaddr in zaddrs` loop
    received,      \* local `txs` of received_by_zaddr
    ti,            \* index of the `for tx in txs` loop
    cur_memo,      \* local `memo`: what hex_decode gave for the current record
    msgs,          \* local `msgs` of received_by_zaddr
    all_msgs,      \* local `all_msgs` of check_msgs, the value it returns
    listed,        \* the z_listreceivedbyaddress answers so far, each with
                   \* the address it was asked for
    decodes        \* every memo hex_decode was given, with what it gave

rpc_vars  == <<id_count, requests, response, exc, ret>>
send_vars == <<pc, sender, amount, msg, unspent, taddr, amounts, opid, status,
               op_error, start_time, now, observed, sleeps, printed>>
fn_vars   == <<fn_in, fn_out, fn_done>>
recv_vars == <<recv_pc, zaddrs, zi, received, ti, cur_memo, msgs, all_msgs, listed,
               decodes>>
vars      == <<rpc_vars, send_vars, fn_vars, recv_vars>>

(***************************************************************************)
(* Bounds of the model.                                                    *)
(***************************************************************************)
MaxRpcCalls == 4      \* calls one RpcSpec behaviour makes
MaxCalls    == 9      \* calls one send_msg invocation makes before its
                      \* polling loop is cut off (Spec), or before the
                      \* history variables stop growing (LiveSpec)
MaxAmount   == 2      \* the largest requested amount
MaxUnspent  == 1      \* the longest listunspent answer of Spec
MaxScan     == 3      \* the longest list of outputs FnSpec scans
MaxScanAmt  == 3      \* the largest amount in those lists
MaxMemoLen  == 4      \* the longest hex memo FnSpec decodes
MaxPad      == 6      \* the most '0' characters after the sentinel
MaxTextLen  == 3      \* the longest text FnSpec encodes
MaxAddrs    == 2      \* the most addresses z_listaddresses returns
MaxRecords  == 3      \* the most notes the wallet of RecvSpec has received

\* The history variables are exact up to HistoryCap entries; no behaviour of
\* RpcSpec or Spec reaches it, a behaviour of LiveSpec that polls for ever does.
HistoryCap == IF MaxCalls > MaxRpcCalls THEN MaxCalls ELSE MaxRpcCalls
Capped(n) == IF n < HistoryCap THEN n ELSE HistoryCap
Logged(log, entry) == IF Len(log) < HistoryCap THEN Append(log, entry) ELSE log

None == "None"        \* an unassigned local, where a string is expected

\* Python values that are either None or a str.
PyNone   == [type |-> "NoneType", v |-> ""]
PyStr(s) == [type |-> "str", v |-> s]

\* str(x): None becomes the four characters "None".
Str(x) == IF x.type = "NoneType" THEN "None" ELSE x.v

(***************************************************************************)
(* rpc.py: the error classes.                                              *)
(***************************************************************************)
\* The @JSONRPCError._register_subcls decorated classes, in source order.
ErrorSubclasses ==
    << [name |-> "ForbiddenBySafeModeError",  RPC_ERROR_CODE |-> -2],
       [name |-> "InvalidAddressOrKeyError",  RPC_ERROR_CODE |-> -5],
       [name |-> "InvalidParameterError",     RPC_ERROR_CODE |-> -8],
       [name |-> "VerifyError",               RPC_ERROR_CODE |-> -25],
       [name |-> "VerifyRejectedError",       RPC_ERROR_CODE |-> -26],
       [name |-> "VerifyAlreadyInChainError", RPC_ERROR_CODE |-> -27],
       [name |-> "InWarmupError",             RPC_ERROR_CODE |-> -28] >>

\* cls.SUBCLS_BY_CODE[subcls.RPC_ERROR_CODE] = subcls
_register_subcls(registry, subcls) ==
    [c \in (DOMAIN registry) \cup {subcls.RPC_ERROR_CODE} |->
        IF c = subcls.RPC_ERROR_CODE THEN subcls.name ELSE registry[c]]

RECURSIVE RegisterAll(_, _)
RegisterAll(registry, i) ==
    IF i > Len(ErrorSubclasses) THEN registry
    ELSE RegisterAll(_register_subcls(registry, ErrorSubclasses[i]), i + 1)

\* The registry once the module is loaded: {} and then every decorator.
SUBCLS_BY_CODE == RegisterAll([c \in {} |-> ""], 1)

\* A mutant of JSONRPCError: the registry is never consulted.
JSONRPCError_NoLookup(rpc_error) ==
    [type |-> "JSONRPCError", error |-> rpc_error]

\* JSONRPCError.__new__: the class is chosen by rpc_error['code'], and the
\* instance keeps rpc_error itself as .error.
JSONRPCError(rpc_error) ==
    [type  |-> IF rpc_error.code \in DOMAIN SUBCLS_BY_CODE
               THEN SUBCLS_BY_CODE[rpc_error.code]
               ELSE "JSONRPCError",
     error |-> rpc_error]

NoError == [code |-> 0, message |-> ""]
NoExc   == [type |-> "none", error |-> NoError]

\* response['error'] on a response object that has no such key.
KeyError == [type |-> "KeyError", error |-> [code |-> 0, message |-> "'error'"]]

(***************************************************************************)
(* The node's answers.  A response object has an optional `error` member   *)
(* (absent, null or an object {code, message}) and an optional `result`.   *)
(***************************************************************************)
NoResult == "null"

RpcErrorCodes == {-2, -5, -8, -25, -26, -27, -28, -1, -999}
RpcMessages   == {"msg-a", "msg-b"}
RpcErrors     == [code : RpcErrorCodes, message : RpcMessages]

OkResponse(v) ==
    [error_kind |-> "null", error |-> NoError, has_result |-> TRUE, result |-> v]

ErrorResponses ==
    {[error_kind |-> "object", error |-> e, has_result |-> h, result |-> NoResult] :
        e \in RpcErrors, h \in BOOLEAN}

\* Responses that carry neither an error object nor a usable result.
MalformedResponses ==
    { [error_kind |-> "null",   error |-> NoError, has_result |-> FALSE, result |-> NoResult],
      [error_kind |-> "absent", error |-> NoError, has_result |-> FALSE, result |-> NoResult],
      [error_kind |-> "absent", error |-> NoError, has_result |-> TRUE,  result |-> NoResult] }

FailureResponses == ErrorResponses \cup MalformedResponses

\* The failures send_msg is run against: one of each kind _call tells apart
\* (a registered code, an unregistered code, no result, no error member).
NodeFailures ==
    {r \in FailureResponses :
        /\ r.error_kind = "object" =>
              r.error \in {[code |-> -8, message |-> "msg-a"],
                           [code |-> -999, message |-> "msg-b"]} /\ r.has_result
        /\ r.error_kind = "absent" => r.has_result}

(***************************************************************************)
(* rpc.py: BaseProxy._call                                                 *)
(***************************************************************************)
\* A mutant of IncrIdCount: the counter is left as it was.
IncrIdCount_Skip(n) == n

\* self.__id_count += 1
IncrIdCount(n) == n + 1

\* The exception _call raises on `resp`, NoExc when it returns normally.
CallRaises(resp) ==
    IF resp.error_kind = "absent" THEN KeyError
    ELSE IF resp.error_kind # "null" THEN JSONRPCError(resp.error)
    ELSE IF ~resp.has_result
         THEN JSONRPCError([code |-> -343, message |-> "missing JSON-RPC result"])
    ELSE NoExc

\* _call(service_name, *args) answered by `resp`: the counter is bumped and
\* stamped on the request before anything is sent or read.
_call(service_name, arg, resp) ==
    /\ id_count' = Capped(IncrIdCount(id_count))
    /\ requests' = Logged(requests, [id     |-> IncrIdCount(id_count),
                                     method |-> service_name,
                                     arg    |-> arg,
                                     raised |-> CallRaises(resp) # NoExc])
    /\ response' = resp

(***************************************************************************)
(* utils.py: the memo codec.  A text is a sequence of code points, a hex   *)
(* string a sequence of one-character strings.                             *)
(***************************************************************************)
HexDigits ==
    << "0", "1", "2", "3", "4", "5", "6", "7",
       "8", "9", "a", "b", "c", "d", "e", "f" >>

\* The value binascii gives a hexadecimal digit, -1 for any other character.
HexValue(ch) ==
    CASE ch = "0" -> 0  [] ch = "1" -> 1  [] ch = "2" -> 2  [] ch = "3" -> 3
      [] ch = "4" -> 4  [] ch = "5" -> 5  [] ch = "6" -> 6  [] ch = "7" -> 7
      [] ch = "8" -> 8  [] ch = "9" -> 9
      [] ch \in {"a", "A"} -> 10  [] ch \in {"b", "B"} -> 11
      [] ch \in {"c", "C"} -> 12  [] ch \in {"d", "D"} -> 13
      [] ch \in {"e", "E"} -> 14  [] ch \in {"f", "F"} -> 15
      [] OTHER -> -1

\* binascii.b2a_hex: two lower-case digits per byte, high nibble first.
RECURSIVE b2a_hex(_)
b2a_hex(data) ==
    IF data = <<>> THEN <<>>
    ELSE << HexDigits[(Head(data) \div 16) + 1], HexDigits[(Head(data) % 16) + 1] >>
         \o b2a_hex(Tail(data))

\* bytes(msg, encoding="ascii") succeeds only on code points below 128.
IsAscii(text) == \A i \in 1..Len(text) : text[i] < 128

\* A mutant of format_amounts: the memo member is written for every msg.
format_amounts_AlwaysMemo(receiver, amt, text) ==
    IF ~IsAscii(text)
    THEN [raises |-> "UnicodeEncodeError", value |-> <<>>]
    ELSE [raises |-> "",
          value  |-> << [address |-> receiver, amount |-> amt,
                         has_memo |-> TRUE, memo |-> b2a_hex(text)] >>]

\* format_amounts(receiver, amount, msg): a one-entry array; the entry has a
\* memo member only when msg is not the empty string.
format_amounts(receiver, amt, text) ==
    IF text = <<>>
    THEN [raises |-> "",
          value  |-> << [address |-> receiver, amount |-> amt,
                         has_memo |-> FALSE, memo |-> <<>>] >>]
    ELSE IF ~IsAscii(text)
    THEN [raises |-> "UnicodeEncodeError", value |-> <<>>]
    ELSE [raises |-> "",
          value  |-> << [address |-> receiver, amount |-> amt,
                         has_memo |-> TRUE, memo |-> b2a_hex(text)] >>]

\* A mutant of rstrip0: nothing is stripped.
rstrip0_Keep(s) == s

\* msg.rstrip('0'): every trailing '0' character is dropped.
rstrip0(s) ==
    LET last == {i \in 1..Len(s) : s[i] # "0"}
        n == IF last = {} THEN 0 ELSE CHOOSE i \in last : \A k \in last : k <= i
    IN  SubSeq(s, 1, n)

\* The bytes of an even-length string of hexadecimal digits.
RECURSIVE HexBytes(_)
HexBytes(s) ==
    IF s = <<>> THEN <<>>
    ELSE << HexValue(s[1]) * 16 + HexValue(s[2]) >> \o HexBytes(SubSeq(s, 3, Len(s)))

\* binascii.unhexlify: an odd length or a character that is no hexadecimal
\* digit raises binascii.Error.
unhexlify(s) ==
    IF Len(s) % 2 # 0 \/ \E i \in 1..Len(s) : HexValue(s[i]) < 0
    THEN [raises |-> "binascii.Error", value |-> <<>>]
    ELSE [raises |-> "", value |-> HexBytes(s)]

\* A mutant of decode_ascii: errors='ignore', the bytes of 0x80 or more
\* are dropped.
decode_ascii_Ignore(data) ==
    [raises |-> "", value |-> SelectSeq(data, LAMBDA b : b < 128)]

\* bytes.decode('ascii'): a byte of 0x80 or more raises UnicodeDecodeError.
decode_ascii(data) ==
    IF IsAscii(data)
    THEN [raises |-> "", value |-> data]
    ELSE [raises |-> "UnicodeDecodeError", value |-> <<>>]

\* hex_decode(msg): kind "None" when the stripped memo is "f6", else the text
\* or the exception of unhexlify(...).decode('ascii').
hex_decode(memo) ==
    LET msgstr == rstrip0(memo)
    IN  IF msgstr # <<"f", "6">>
        THEN LET raw == unhexlify(msgstr)
                 decoded == IF raw.raises # "" THEN raw ELSE decode_ascii(raw.value)
             IN  IF decoded.raises # ""
                 THEN [kind |-> "raise", text |-> <<>>, raises |-> decoded.raises]
                 ELSE [kind |-> "text", text |-> decoded.value, raises |-> ""]
        ELSE [kind |-> "None", text |-> <<>>, raises |-> ""]

(***************************************************************************)
(* zmsg.py: Zmsg.find_unspent_taddr, the scan of the listunspent answer.   *)
(***************************************************************************)
\* if tx['spendable'] == True: if tx['amount'] > amount:
Qualifies(tx, amt) == tx.spendable /\ tx.amount > amt

\* A mutant of scan_unspent: the last qualifying output wins.
RECURSIVE scan_unspent_Last(_, _)
scan_unspent_Last(txs, amt) ==
    IF txs = <<>> THEN PyNone
    ELSE IF Qualifies(txs[Len(txs)], amt) THEN PyStr(txs[Len(txs)].address)
    ELSE scan_unspent_Last(SubSeq(txs, 1, Len(txs) - 1), amt)

\* for tx in unspent: ... return tx['address']; falling off the loop
\* returns None.
RECURSIVE scan_unspent(_, _)
scan_unspent(txs, amt) ==
    IF txs = <<>> THEN PyNone
    ELSE IF Qualifies(Head(txs), amt) THEN PyStr(Head(txs).address)
    ELSE scan_unspent(Tail(txs), amt)

(***************************************************************************)
(* zmsg.py: Zmsg.send_msg.  The node's side of one invocation.             *)
(***************************************************************************)
DEFAULT_HTTP_TIMEOUT == 30
POLL_TIMEOUT == 120

\* How long one request/response round trip may block: it returns at once
\* or only when the socket timeout is about to expire.
Latencies == {0, DEFAULT_HTTP_TIMEOUT}

\* The clock is exact below ClockCap, which no behaviour of Spec reaches.
ClockCap == (HistoryCap + 1) * (DEFAULT_HTTP_TIMEOUT + 1)
Clock(t) == IF t < ClockCap THEN t ELSE ClockCap

Receiver == "z-to"
Senders  == {PyNone, PyStr(""), PyStr("t-from")}
Msgs     == {<<>>, <<104, 105>>, <<233>>}          \* "", "hi", "\xe9"
OpIds    == {"opid-1", "opid-2"}
Taddrs   == <<"t-1", "t-2", "t-3", "t-4">>

Statuses == {"queued", "executing", "success", "failed", "cancelled"}
OpErrors == {[code |-> -4, message |-> "op-err-a"],
             [code |-> -6, message |-> "op-err-b"]}

\* One operation record of z_getoperationstatus / z_getoperationresult; only
\* a failed operation has an error member.
OpRecords ==
    {[status |-> s, error |-> NoError] : s \in Statuses \ {"failed"}}
    \cup {[status |-> "failed", error |-> e] : e \in OpErrors}

\* The array the node answers with: one record, or none when it does not
\* know (or no longer holds) the operation.
OpArrays == {<<>>} \cup {<<r>> : r \in OpRecords}

\* listunspent answers for a requested amount: outputs of exactly that
\* amount and outputs above it, spendable or not, the i-th paying to Taddrs[i].
RECURSIVE UnspentLists(_, _)
UnspentLists(amt, n) ==
    IF n = 0 THEN {<<>>}
    ELSE LET shorter == UnspentLists(amt, n - 1)
         IN  shorter \cup
             {Append(l, [address |-> Taddrs[n], amount |-> a, spendable |-> b]) :
                 l \in {x \in shorter : Len(x) = n - 1},
                 a \in {amt, amt + 1}, b \in BOOLEAN}

IndexError == [type |-> "IndexError", error |-> [code |-> 0, message |-> "list index out of range"]]
UnicodeEncodeError == [type |-> "UnicodeEncodeError", error |-> NoError]

\* Exception(response_array[0]['error'])
Exception(payload) == [type |-> "Exception", error |-> payload]

NotPrinted == [outcome |-> "none", value |-> ""]

\* while status == 'executing':
WhileTest(s) == IF s = "executing" THEN "poll" ELSE "returned"

\* A mutant of PollBranch: the executing branch does not sleep.
PollBranch_NoSleep(s, t, start) ==
    IF s = "executing" THEN "poll"
    ELSE IF s = "success" THEN "success"
    ELSE IF s = "failed" THEN "failed"
    ELSE IF t > start + POLL_TIMEOUT THEN "getresult"
    ELSE "other"

\* A mutant of PollBranch: the else branch does not look at the clock.
PollBranch_NoTimeout(s, t, start) ==
    IF s = "executing" THEN "sleep"
    ELSE IF s = "success" THEN "success"
    ELSE IF s = "failed" THEN "failed"
    ELSE "getresult"

\* The if/elif chain of the loop body on the freshly polled status `s`, at
\* time `t` with start_time `start`.
PollBranch(s, t, start) ==
    IF s = "executing" THEN "sleep"
    ELSE IF s = "success" THEN "success"
    ELSE IF s = "failed" THEN "failed"
    ELSE IF t > start + POLL_TIMEOUT THEN "getresult"
    ELSE "other"

\* A mutant of Raise: the exception is caught and the statement run again.
Raise_Retry(e) ==
    /\ pc' = pc
    /\ exc' = e

\* An exception leaves send_msg: nothing below the raising line runs.
Raise(e) ==
    /\ pc' = "raised"
    /\ exc' = e

\* if sender == '' or sender == None: taddr = self.find_unspent_taddr(amount);
\* sender = taddr.  find_unspent_taddr calls listunspent and scans the answer.
SelectSender ==
    /\ pc = "start"
    /\ sender \in {PyStr(""), PyNone}
    /\ \E lat \in Latencies,
          resp \in NodeFailures
                   \cup {OkResponse(l) : l \in UnspentLists(amount, MaxUnspent)} :
          /\ _call("listunspent", "", resp)
          /\ now' = Clock(now + lat)
          /\ IF CallRaises(resp) # NoExc
             THEN /\ Raise(CallRaises(resp))
                  /\ UNCHANGED <<sender, unspent, taddr>>
             ELSE /\ unspent' = resp.result
                  /\ taddr' = scan_unspent(resp.result, amount)
                  /\ sender' = scan_unspent(resp.result, amount)
                  /\ pc' = "submit"
                  /\ exc' = NoExc
    /\ UNCHANGED <<ret, amount, msg, amounts, opid, status, op_error, start_time,
                   observed, sleeps, printed, fn_vars, recv_vars>>

\* amounts = format_amounts(receiver, amount, msg);
\* opid = self.rpc.z_sendmany(sender, amounts), which sends str(fromaddress).
Submit ==
    /\ \/ pc = "submit"
       \/ pc = "start" /\ sender \notin {PyStr(""), PyNone}
    /\ LET formatted == format_amounts(Receiver, amount, msg)
       IN  IF formatted.raises # ""
           THEN /\ Raise(UnicodeEncodeError)
                /\ UNCHANGED <<id_count, requests, response, amounts, opid, now>>
           ELSE /\ amounts' = formatted.value
                /\ \E lat \in Latencies,
                      resp \in NodeFailures \cup {OkResponse(o) : o \in OpIds} :
                      /\ _call("z_sendmany", Str(sender), resp)
                      /\ now' = Clock(now + lat)
                      /\ IF CallRaises(resp) # NoExc
                         THEN Raise(CallRaises(resp)) /\ UNCHANGED opid
                         ELSE pc' = "poll0" /\ exc' = NoExc /\ opid' = resp.result
    /\ UNCHANGED <<ret, sender, amount, msg, unspent, taddr, status, op_error,
                   start_time, observed, sleeps, printed, fn_vars, recv_vars>>

\* response_array = self.rpc.z_getoperationstatus([opid]);
\* status = response_array[0]['status']; start_time = time.time(); then the
\* while test.
FirstPoll ==
    /\ pc = "poll0"
    /\ \E lat \in Latencies,
          resp \in NodeFailures \cup {OkResponse(a) : a \in OpArrays} :
          /\ _call("z_getoperationstatus", opid, resp)
          /\ now' = Clock(now + lat)
          /\ IF CallRaises(resp) # NoExc
             THEN /\ Raise(CallRaises(resp))
                  /\ UNCHANGED <<status, op_error, start_time, observed>>
             ELSE IF resp.result = <<>>
             THEN /\ Raise(IndexError)
                  /\ UNCHANGED <<status, op_error, start_time, observed>>
             ELSE /\ status' = resp.result[1].status
                  /\ op_error' = resp.result[1].error
                  /\ observed' = Logged(observed, resp.result[1].status)
                  /\ start_time' = now'
                  /\ pc' = WhileTest(resp.result[1].status)
                  /\ exc' = NoExc
    /\ UNCHANGED <<ret, sender, amount, msg, unspent, taddr, amounts, opid,
                   sleeps, printed, fn_vars, recv_vars>>

\* One pass of the loop body up to its sleep or its z_getoperationresult:
\* the poll, the if/elif chain on the new status, and the while test that
\* follows when the branch neither sleeps, raises nor fetches the result.
PollStep ==
    /\ pc = "poll"
    /\ \E lat \in Latencies,
          resp \in NodeFailures \cup {OkResponse(a) : a \in OpArrays} :
          /\ _call("z_getoperationstatus", opid, resp)
          /\ now' = Clock(now + lat)
          /\ IF CallRaises(resp) # NoExc
             THEN /\ Raise(CallRaises(resp))
                  /\ UNCHANGED <<status, op_error, observed, printed>>
             ELSE IF resp.result = <<>>
             THEN /\ Raise(IndexError)
                  /\ UNCHANGED <<status, op_error, observed, printed>>
             ELSE LET rec    == resp.result[1]
                      branch == PollBranch(rec.status, now', start_time)
                  IN  /\ status' = rec.status
                      /\ op_error' = rec.error
                      /\ observed' = Logged(observed, rec.status)
                      /\ CASE branch = "sleep" ->
                                /\ pc' = "sleep"
                                /\ exc' = NoExc
                                /\ UNCHANGED printed
                           [] branch = "success" ->
                                /\ printed' = [outcome |-> "Succeeded", value |-> opid]
                                /\ pc' = WhileTest(rec.status)
                                /\ exc' = NoExc
                           [] branch = "failed" ->
                                /\ printed' = [outcome |-> "Failed", value |-> opid]
                                /\ Raise(Exception(rec.error))
                           [] branch = "getresult" ->
                                /\ pc' = "getresult"
                                /\ exc' = NoExc
                                /\ UNCHANGED printed
                           [] OTHER ->
                                /\ pc' = WhileTest(rec.status)
                                /\ exc' = NoExc
                                /\ UNCHANGED printed
    /\ UNCHANGED <<ret, sender, amount, msg, unspent, taddr, amounts, opid,
                   start_time, sleeps, fn_vars, recv_vars>>

\* Spec cuts the polling loop off so that a z_getoperationresult still fits.
Poll ==
    /\ Len(requests) < MaxCalls - 1
    /\ PollStep

\* time.sleep(1), and the while test that follows it.
Sleep ==
    /\ pc = "sleep"
    /\ now' = Clock(now + 1)
    /\ sleeps' = Capped(sleeps + 1)
    /\ pc' = WhileTest(status)
    /\ UNCHANGED <<rpc_vars, sender, amount, msg, unspent, taddr, amounts, opid,
                   status, op_error, start_time, observed, printed, fn_vars, recv_vars>>

\* result = self.rpc.z_getoperationresult([opid]); status = result[0]['status'];
\* print("Sending timed out, ..."); break
GetResult ==
    /\ pc = "getresult"
    /\ \E lat \in Latencies,
          resp \in NodeFailures \cup {OkResponse(a) : a \in OpArrays} :
          /\ _call("z_getoperationresult", opid, resp)
          /\ now' = Clock(now + lat)
          /\ IF CallRaises(resp) # NoExc
             THEN /\ Raise(CallRaises(resp))
                  /\ UNCHANGED <<status, printed>>
             ELSE IF resp.result = <<>>
             THEN /\ Raise(IndexError)
                  /\ UNCHANGED <<status, printed>>
             ELSE /\ status' = resp.result[1].status
                  /\ printed' = [outcome |-> "TimedOut", value |-> resp.result[1].status]
                  /\ pc' = "returned"
                  /\ exc' = NoExc
    /\ UNCHANGED <<ret, sender, amount, msg, unspent, taddr, amounts, opid,
                   op_error, start_time, observed, sleeps, fn_vars, recv_vars>>

(***************************************************************************)
(* RpcSpec: a caller of Proxy.call on one client.                          *)
(***************************************************************************)
RpcMethods == {"z_listaddresses", "gettransaction"}
RpcResults == {"r1", NoResult}

SendIdle ==
    /\ pc = "idle" /\ sender = PyNone /\ amount = 0 /\ msg = <<>>
    /\ unspent = <<>> /\ taddr = PyNone /\ amounts = <<>> /\ opid = None
    /\ status = None /\ op_error = NoError /\ start_time = 0 /\ now = 0
    /\ observed = <<>> /\ sleeps = 0 /\ printed = NotPrinted

FnIdle == fn_in = [fn |-> "none"] /\ fn_out = [kind |-> "none"] /\ fn_done = FALSE

NoMemo == [kind |-> "none", text |-> <<>>, raises |-> ""]

RecvIdle ==
    /\ recv_pc = "idle" /\ zaddrs = <<>> /\ zi = 0 /\ received = <<>> /\ ti = 0
    /\ cur_memo = NoMemo /\ msgs = <<>> /\ all_msgs = <<>>
    /\ listed = <<>> /\ decodes = <<>>

RpcIdle ==
    /\ id_count = 0 /\ requests = <<>> /\ response = OkResponse(NoResult)
    /\ exc = NoExc /\ ret = NoResult

\* Proxy.call returning the node's result.
CallReturns ==
    /\ Len(requests) < MaxRpcCalls
    /\ \E m \in RpcMethods, r \in RpcResults :
          /\ _call(m, "", OkResponse(r))
          /\ exc' = CallRaises(OkResponse(r))
          /\ ret' = r
    /\ UNCHANGED <<send_vars, fn_vars, recv_vars>>

\* Proxy.call raising: the node answered with an error, or with no result.
CallFails ==
    /\ Len(requests) < MaxRpcCalls
    /\ \E m \in RpcMethods, resp \in FailureResponses :
          /\ _call(m, "", resp)
          /\ exc' = CallRaises(resp)
    /\ UNCHANGED <<ret, send_vars, fn_vars, recv_vars>>

RpcInit == RpcIdle /\ SendIdle /\ FnIdle /\ RecvIdle
RpcNext == CallReturns \/ CallFails
RpcSpec == RpcInit /\ [][RpcNext]_vars

(***************************************************************************)
(* rpc.py: Proxy.gettransaction.                                           *)
(***************************************************************************)
\* Python values that are a bytes object.
PyBytes(b) == [type |-> "bytes", v |-> b]

\* b2lx(txid): rpc.py neither defines nor imports the name.
NameError == [type |-> "NameError", error |-> [code |-> 0, message |-> "b2lx"]]

\* The exception gettransaction(txid) raises when the node answers `resp`,
\* NoExc when it returns.  A str txid goes to _call outside any try block;
\* the translation of InvalidAddressOrKeyError to IndexError stands on the
\* other branch, behind the evaluation of b2lx(txid).
gettransaction_raises(txid, resp) ==
    IF txid.type = "str" THEN CallRaises(resp) ELSE NameError

\* gettransaction(txid) answered by `resp`: what it does to the connection.
gettransaction(txid, resp) ==
    IF txid.type = "str"
    THEN _call("gettransaction", txid.v, resp)
    ELSE UNCHANGED <<id_count, requests, response>>

(***************************************************************************)
(* RecvSpec: one invocation check_msgs() against a node whose wallet holds *)
(* at most MaxAddrs shielded addresses and MaxRecords received notes.      *)
(***************************************************************************)
ZAddrs == <<"z-1", "z-2", "z-3", "z-4">>

\* A z_listaddresses answer: the first n addresses of the wallet.
AddrList(n) == SubSeq(ZAddrs, 1, n)

\* The memo fields of the wallet's notes: the sentinel bare, padded and in
\* upper case, "hi" bare and padded, a memo of '0' only, one of odd length
\* and one that starts with the sentinel's byte.
RecvMemos ==
    { <<"f", "6">>, <<"f", "6", "0", "0">>, <<"F", "6">>,
      <<"6", "8", "6", "9">>, <<"6", "8", "6", "9", "0", "0", "0">>,
      <<"0", "0", "0">>, <<"6", "8", "6">>, <<"f", "6", "6", "8">> }

\* The txid of the i-th note of the k-th address, a str.
TxId(k, i) == PyStr(<<"tx", k, i>>)

\* resp['time'] of the transaction: distinct for distinct transactions.
TxTime(txid) == 1000 * txid.v[2] + txid.v[3]

\* z_listreceivedbyaddress answers for the k-th address: at most n notes.
RECURSIVE NoteLists(_, _)
NoteLists(k, n) ==
    IF n = 0 THEN {<<>>}
    ELSE LET shorter == NoteLists(k, n - 1)
         IN  shorter \cup
             {Append(l, [txid |-> TxId(k, n), amount |-> n, memo |-> m]) :
                 l \in {x \in shorter : Len(x) = n - 1}, m \in RecvMemos}

\* How many notes the answers in `answers` hold together.
RECURSIVE NoteCount(_)
NoteCount(answers) ==
    IF answers = <<>> THEN 0
    ELSE Len(answers[1].txs) + NoteCount(Tail(answers))

\* The failures check_msgs is run against: the node does not know the
\* transaction or address (-5), or answers with no result.
RecvFailures ==
    {r \in FailureResponses :
        /\ r.error_kind = "object" =>
              r.error = [code |-> -5, message |-> "msg-a"] /\ r.has_result
        /\ r.error_kind # "absent"}

\* time.ctime(secs): the local time of `secs` written out as text.
ctime(secs) == [ctime |-> secs]

\* A mutant of KeepMemo: `if memo:` in place of `if memo != None:`.
KeepMemo_Truthy(d) == d.kind = "text" /\ d.text # <<>>

\* if memo != None:
KeepMemo(d) == d.kind # "None"

\* A mutant of SetItem: an address with no message gets no key.
SetItem_SkipEmpty(d, key, value) ==
    IF value = <<>> THEN d
    ELSE [a \in (DOMAIN d) \cup {key} |-> IF a = key THEN value ELSE d[a]]

\* all_msgs[zaddr] = msgs
SetItem(d, key, value) ==
    [a \in (DOMAIN d) \cup {key} |-> IF a = key THEN value ELSE d[a]]

\* A mutant of RecvRaise: the exception is caught and check_msgs returns
\* what it has collected.
RecvRaise_ReturnPartial(e) == recv_pc' = "returned" /\ exc' = e

\* An exception leaves check_msgs: neither function has a try block.
RecvRaise(e) == recv_pc' = "raised" /\ exc' = e

\* The `for tx in txs` loop goes on at record i of `list` with msgs = m; past
\* the last record received_by_zaddr returns m, check_msgs stores it and its
\* own loop goes on, or returns all_msgs.
Advance(list, i, m) ==
    /\ ti' = i
    /\ msgs' = m
    /\ IF i <= Len(list)
       THEN recv_pc' = "tx" /\ UNCHANGED <<zi, all_msgs>>
       ELSE /\ all_msgs' = SetItem(all_msgs, zaddrs[zi], m)
            /\ zi' = zi + 1
            /\ recv_pc' = IF zi + 1 <= Len(zaddrs) THEN "list" ELSE "returned"

\* check_msgs up to the answer to z_listaddresses.
ListAddresses ==
    /\ recv_pc = "start"
    /\ \E resp \in RecvFailures \cup {OkResponse(AddrList(n)) : n \in 0..MaxAddrs} :
          /\ _call("z_listaddresses", "", resp)
          /\ IF CallRaises(resp) # NoExc
             THEN /\ RecvRaise(CallRaises(resp))
                  /\ UNCHANGED <<zaddrs, zi, all_msgs>>
             ELSE /\ exc' = NoExc
                  /\ zaddrs' = resp.result
                  /\ all_msgs' = <<>>
                  /\ zi' = 1
                  /\ recv_pc' = IF resp.result = <<>> THEN "returned" ELSE "list"
    /\ UNCHANGED <<ret, received, ti, cur_memo, msgs, listed, decodes,
                   send_vars, fn_vars>>

\* received_by_zaddr(zaddr, minconf) up to the answer to
\* z_listreceivedbyaddress.
ListReceived ==
    /\ recv_pc = "list"
    /\ \E resp \in RecvFailures
                   \cup {OkResponse(l) :
                           l \in NoteLists(zi, MaxRecords - NoteCount(listed))} :
          /\ _call("z_listreceivedbyaddress", zaddrs[zi], resp)
          /\ IF CallRaises(resp) # NoExc
             THEN /\ RecvRaise(CallRaises(resp))
                  /\ UNCHANGED <<zi, received, ti, msgs, all_msgs, listed>>
             ELSE /\ exc' = NoExc
                  /\ received' = resp.result
                  /\ listed' = Append(listed, [zaddr |-> zaddrs[zi],
                                               txs   |-> resp.result])
                  /\ Advance(resp.result, 1, <<>>)
    /\ UNCHANGED <<ret, zaddrs, cur_memo, decodes, send_vars, fn_vars>>

\* One turn of the `for tx in txs` loop up to the test of the decoded memo.
DecodeMemo ==
    /\ recv_pc = "tx"
    /\ LET d == hex_decode(received[ti].memo)
       IN  /\ cur_memo' = d
           /\ decodes' = Append(decodes, [memo |-> received[ti].memo, out |-> d])
           /\ IF d.kind = "raise"
              THEN /\ RecvRaise([type |-> d.raises, error |-> NoError])
                   /\ UNCHANGED <<zi, ti, msgs, all_msgs>>
              ELSE IF KeepMemo(d)
              THEN /\ recv_pc' = "gettx"
                   /\ UNCHANGED <<exc, zi, ti, msgs, all_msgs>>
              ELSE /\ Advance(received, ti + 1, msgs)
                   /\ UNCHANGED exc
    /\ UNCHANGED <<id_count, requests, response, ret, zaddrs, received, listed,
                   send_vars, fn_vars>>

\* The rest of the turn: the transaction is fetched and the message appended.
GetTransaction ==
    /\ recv_pc = "gettx"
    /\ LET tx == received[ti]
       IN  \E resp \in RecvFailures
                       \cup {OkResponse([time |-> TxTime(tx.txid)])} :
              /\ gettransaction(tx.txid, resp)
              /\ IF gettransaction_raises(tx.txid, resp) # NoExc
                 THEN /\ RecvRaise(gettransaction_raises(tx.txid, resp))
                      /\ UNCHANGED <<zi, ti, msgs, all_msgs>>
                 ELSE /\ exc' = NoExc
                      /\ Advance(received, ti + 1,
                                 Append(msgs, [time   |-> ctime(resp.result.time),
                                               amount |-> tx.amount,
                                               memo   |-> cur_memo.text]))
    /\ UNCHANGED <<ret, zaddrs, received, cur_memo, listed, decodes,
                   send_vars, fn_vars>>

RecvInit ==
    /\ RpcIdle /\ SendIdle /\ FnIdle
    /\ recv_pc = "start" /\ zaddrs = <<>> /\ zi = 0 /\ received = <<>> /\ ti = 0
    /\ cur_memo = NoMemo /\ msgs = <<>> /\ all_msgs = <<>>
    /\ listed = <<>> /\ decodes = <<>>

RecvNext == ListAddresses \/ ListReceived \/ DecodeMemo \/ GetTransaction
RecvSpec == RecvInit /\ [][RecvNext]_vars

(***************************************************************************)
(* FnSpec: the functions that touch neither the node nor the clock, each   *)
(* applied once to an input drawn from a bounded set.                      *)
(***************************************************************************)
\* All sequences over `alphabet` of length at most n.
RECURSIVE SeqsUpTo(_, _)
SeqsUpTo(alphabet, n) ==
    IF n = 0 THEN {<<>>}
    ELSE LET shorter == SeqsUpTo(alphabet, n - 1)
         IN  shorter \cup {Append(q, a) : q \in {x \in shorter : Len(x) = n - 1},
                                          a \in alphabet}

\* '0', '6', '8', 'f', 'F' and 'g': digits of the sentinel, of printable and
\* of non-ASCII bytes, an upper-case digit and a character that is no digit.
MemoChars == {"0", "6", "8", "f", "F", "g"}

\* ' ', '0', 'P', 'h', 'i': three code points whose hex ends in 0, two not.
TextChars == {32, 48, 80, 104, 105}

\* "f6" followed by n '0' characters.
PaddedSentinel(n) == <<"f", "6">> \o [i \in 1..n |-> "0"]

\* Lists of at most n outputs, the i-th paying to Taddrs[i].
RECURSIVE OutputLists(_)
OutputLists(n) ==
    IF n = 0 THEN {<<>>}
    ELSE LET shorter == OutputLists(n - 1)
         IN  shorter \cup
             {Append(l, [address |-> Taddrs[n], amount |-> a, spendable |-> b]) :
                 l \in {x \in shorter : Len(x) = n - 1},
                 a \in 1..MaxScanAmt, b \in BOOLEAN}

\* The addresses format_amounts is given.
Receivers == {Receiver, "t-to"}

\* Texts with a code point bytes(msg, encoding="ascii") cannot encode.
NonAsciiTexts == {<<233>>, <<104, 233>>}

FnInputs ==
    {[fn |-> "hex_decode", memo |-> m] :
        m \in SeqsUpTo(MemoChars, MaxMemoLen)
              \cup {PaddedSentinel(n) : n \in 0..MaxPad}}
    \cup {[fn |-> "encode_decode", text |-> t] : t \in SeqsUpTo(TextChars, MaxTextLen)}
    \cup {[fn |-> "find_unspent_taddr", unspent |-> l, amount |-> a] :
            l \in OutputLists(MaxScan), a \in 0..MaxScanAmt}
    \cup {[fn |-> "format_amounts", receiver |-> r, amount |-> a, text |-> t] :
            r \in Receivers, a \in 1..MaxAmount,
            t \in SeqsUpTo(TextChars, MaxTextLen) \cup NonAsciiTexts}

\* hex_decode(memo)
ApplyHexDecode ==
    /\ ~fn_done
    /\ fn_in.fn = "hex_decode"
    /\ fn_out' = hex_decode(fn_in.memo)
    /\ fn_done' = TRUE
    /\ UNCHANGED <<fn_in, rpc_vars, send_vars, recv_vars>>

\* hex_decode of the memo member format_amounts builds for a text.
ApplyEncodeDecode ==
    /\ ~fn_done
    /\ fn_in.fn = "encode_decode"
    /\ LET formatted == format_amounts(Receiver, 1, fn_in.text)
       IN  fn_out' =
             IF formatted.raises # ""
             THEN [kind |-> "raise", text |-> <<>>, raises |-> formatted.raises]
             ELSE IF ~formatted.value[1].has_memo
             THEN [kind |-> "no memo", text |-> <<>>, raises |-> ""]
             ELSE hex_decode(formatted.value[1].memo)
    /\ fn_done' = TRUE
    /\ UNCHANGED <<fn_in, rpc_vars, send_vars, recv_vars>>

\* find_unspent_taddr(amount) on a listunspent answer.
ApplyFindUnspent ==
    /\ ~fn_done
    /\ fn_in.fn = "find_unspent_taddr"
    /\ fn_out' = [kind |-> "return", value |-> scan_unspent(fn_in.unspent, fn_in.amount)]
    /\ fn_done' = TRUE
    /\ UNCHANGED <<fn_in, rpc_vars, send_vars, recv_vars>>

\* format_amounts(receiver, amount, msg)
ApplyFormatAmounts ==
    /\ ~fn_done
    /\ fn_in.fn = "format_amounts"
    /\ LET formatted == format_amounts(fn_in.receiver, fn_in.amount, fn_in.text)
       IN  fn_out' = [kind   |-> IF formatted.raises # "" THEN "raise" ELSE "return",
                      value  |-> formatted.value,
                      raises |-> formatted.raises]
    /\ fn_done' = TRUE
    /\ UNCHANGED <<fn_in, rpc_vars, send_vars, recv_vars>>

FnInit ==
    /\ RpcIdle /\ SendIdle /\ RecvIdle
    /\ fn_in \in FnInputs
    /\ fn_out = [kind |-> "none"]
    /\ fn_done = FALSE

FnNext ==
    \/ ApplyHexDecode \/ ApplyEncodeDecode \/ ApplyFindUnspent
    \/ ApplyFormatAmounts
FnSpec == FnInit /\ [][FnNext]_vars

(***************************************************************************)
(* Spec: one invocation send_msg(sender, receiver, amount, msg).           *)
(***************************************************************************)
Init ==
    /\ RpcIdle /\ FnIdle /\ RecvIdle
    /\ pc = "start"
    /\ sender \in Senders
    /\ amount \in 1..MaxAmount
    /\ msg \in Msgs
    /\ unspent = <<>> /\ taddr = PyNone /\ amounts = <<>> /\ opid = None
    /\ status = None /\ op_error = NoError /\ start_time = 0 /\ now = 0
    /\ observed = <<>> /\ sleeps = 0 /\ printed = NotPrinted

Next == SelectSender \/ Submit \/ FirstPoll \/ Poll \/ Sleep \/ GetResult
Spec == Init /\ [][Next]_vars

\* The code's scheduling: one thread, which always takes its next step, and
\* a node that answers every request (with a result or with an error).
LiveNext == SelectSender \/ Submit \/ FirstPoll \/ PollStep \/ Sleep \/ GetResult
LiveSpec == Init /\ [][LiveNext]_vars /\ WF_vars(LiveNext)

(***************************************************************************)
(* The properties.                                                         *)
(***************************************************************************)
Terminated == pc \in {"returned", "raised"}

\* How many requests of `method` were written.
Count(method) == Cardinality({k \in 1..Len(requests) : requests[k].method = method})

Saw(s) == \E i \in 1..Len(observed) : observed[i] = s

\* C1: once a status poll has returned 'failed' (the first poll included),
\* send_msg ends by raising an exception that carries the error attached to
\* that status; it never returns normally.
C1_FailedAlwaysRaises ==
    (Terminated /\ Saw("failed")) =>
        /\ pc = "raised"
        /\ exc = Exception(op_error)

C2_Scenario ==
    /\ pc = "returned"
    /\ observed = <<"executing", "executing", "success">>

C2_Outcome(n) ==
    /\ printed = [outcome |-> "Succeeded", value |-> opid]
    /\ \A k \in 1..Len(requests) :
          requests[k].method = "z_getoperationstatus" => requests[k].arg = opid
    /\ sleeps = n
    /\ Count("z_getoperationstatus") = 3
    /\ Count("z_getoperationresult") = 0

C3_UnrecognizedEndsTimedOut ==
    ( /\ pc = "returned"
      /\ observed # <<>>
      /\ \A i \in 1..Len(observed) :
            observed[i] \notin {"executing", "success", "failed"} ) =>
        /\ Count("z_getoperationresult") = 1
        /\ requests[Len(requests)].method = "z_getoperationresult"
        /\ requests[Len(requests)].arg = opid
        /\ printed = [outcome |-> "TimedOut", value |-> status]

\* C4: every invocation that has submitted an operation terminates, whatever
\* statuses the node returns.
C4_Terminates == (pc = "poll0") ~> Terminated

\* C6: hex_decode of "f6" followed by any number of '0' characters is None:
\* no exception and no text.
C6_SentinelIsAbsent ==
    ( /\ fn_done
      /\ fn_in.fn = "hex_decode"
      /\ Len(fn_in.memo) >= 2
      /\ fn_in.memo[1] = "f" /\ fn_in.memo[2] = "6"
      /\ \A i \in 3..Len(fn_in.memo) : fn_in.memo[i] = "0" ) =>
        fn_out = [kind |-> "None", text |-> <<>>, raises |-> ""]

C6_Witness ==
    /\ fn_done
    /\ fn_in = [fn |-> "hex_decode", memo |-> <<"f", "6", "0", "0", "0">>]
    /\ fn_out.kind = "None"

Printable(text) == \A i \in 1..Len(text) : text[i] >= 32 /\ text[i] <= 126

\* C5: for every non-empty text of printable ASCII characters, hex_decode of
\* the memo format_amounts builds returns exactly that text.
C5_MemoRoundTrip ==
    ( /\ fn_done
      /\ fn_in.fn = "encode_decode"
      /\ fn_in.text # <<>>
      /\ Printable(fn_in.text) ) =>
        fn_out = [kind |-> "text", text |-> fn_in.text, raises |-> ""]

\* The outputs of `txs` that are spendable and worth more than `amt`.
Eligible(txs, amt) == {i \in 1..Len(txs) : txs[i].spendable = TRUE /\ txs[i].amount > amt}

\* C7: find_unspent_taddr returns the address of the lowest-index output that
\* is spendable and worth strictly more than the requested amount.
C7_FirstEligibleInListingOrder ==
    ( /\ fn_done
      /\ fn_in.fn = "find_unspent_taddr"
      /\ Eligible(fn_in.unspent, fn_in.amount) # {} ) =>
        \E i \in Eligible(fn_in.unspent, fn_in.amount) :
            /\ \A j \in Eligible(fn_in.unspent, fn_in.amount) : i <= j
            /\ fn_out.value = PyStr(fn_in.unspent[i].address)

\* The outputs of the spec's example: too small and unspendable, then two
\* spendable ones of growing amount; the first of the two is returned.
C7_Witness ==
    /\ fn_done
    /\ fn_in = [fn |-> "find_unspent_taddr", amount |-> 1,
                unspent |-> << [address |-> "t-1", amount |-> 1, spendable |-> FALSE],
                               [address |-> "t-2", amount |-> 2, spendable |-> TRUE],
                               [address |-> "t-3", amount |-> 3, spendable |-> TRUE] >>]
    /\ fn_out.value = PyStr("t-2")

\* C8: send_msg called without a sender, when no unspent output is spendable
\* and worth more than the amount, fails with NoFundsAvailable and never
\* issues z_sendmany.
C8_NoFundsNoSend ==
    ( /\ Len(requests) >= 1
      /\ requests[1].method = "listunspent"
      /\ ~requests[1].raised
      /\ Eligible(unspent, amount) = {} ) =>
        /\ Count("z_sendmany") = 0
        /\ Terminated => (pc = "raised" /\ exc.type = "NoFundsAvailable")

\* C9: the k-th request written by _call on one client carries id k, also
\* after calls that raised.
C9_IdMonotonic == \A k \in 1..Len(requests) : requests[k].id = k

C9_Witness ==
    /\ Len(requests) = 3
    /\ requests[1].raised /\ ~requests[2].raised /\ requests[3].raised
    /\ requests[3].id = 3

\* The error class the spec's table gives a code.
KindOf(code) ==
    CASE code = -2  -> "ForbiddenBySafeModeError"
      [] code = -5  -> "InvalidAddressOrKeyError"
      [] code = -8  -> "InvalidParameterError"
      [] code = -25 -> "VerifyError"
      [] code = -26 -> "VerifyRejectedError"
      [] code = -27 -> "VerifyAlreadyInChainError"
      [] code = -28 -> "InWarmupError"
      [] OTHER      -> "JSONRPCError"

\* C10: a response with a non-null error makes call raise the error class
\* registered for its code, the generic JSONRPCError for any other code, and
\* the raised error carries the response's code and message unchanged.
C10_ErrorClassification ==
    (requests # <<>> /\ response.error_kind = "object") =>
        /\ exc.type = KindOf(response.error.code)
        /\ exc.error = response.error

C10_Witness ==
    /\ requests # <<>>
    /\ response.error_kind = "object"
    /\ response.error = [code |-> -5, message |-> "msg-b"]
    /\ exc = [type |-> "InvalidAddressOrKeyError",
              error |-> [code |-> -5, message |-> "msg-b"]]

(***************************************************************************)
(* The receive workflow.                                                   *)
(***************************************************************************)
\* m without its trailing '0' characters: the prefix that does not end in
\* '0' and is followed by '0' only.
Stripped(m) ==
    LET n == CHOOSE k \in 0..Len(m) :
                 /\ k > 0 => m[k] # "0"
                 /\ \A j \in (k + 1)..Len(m) : m[j] = "0"
    IN  SubSeq(m, 1, n)

IsSentinelMemo(m) == Stripped(m) = <<"f", "6">>

\* The text whose bytes the hex digits of m, trailing '0' apart, write out.
TextOf(m) ==
    [j \in 1..(Len(Stripped(m)) \div 2) |->
        16 * HexValue(Stripped(m)[2 * j - 1]) + HexValue(Stripped(m)[2 * j])]

\* The messages of a list of received notes: one per note, in order, the
\* notes with the sentinel memo left out.
RECURSIVE ExpectedMsgs(_)
ExpectedMsgs(notes) ==
    IF notes = <<>> THEN <<>>
    ELSE LET note == notes[1]
         IN  IF IsSentinelMemo(note.memo) THEN ExpectedMsgs(Tail(notes))
             ELSE <<[time   |-> ctime(TxTime(note.txid)),
                     amount |-> note.amount,
                     memo   |-> TextOf(note.memo)]>>
                  \o ExpectedMsgs(Tail(notes))

\* C11: when check_msgs returns, the keys of its result are exactly the
\* addresses z_listaddresses returned, and each address maps to the list, in
\* the order the node returned the notes, of one record {time, amount, memo}
\* per note whose memo is not the sentinel; sentinel notes are left out.
C11_CheckMsgsResult ==
    recv_pc = "returned" =>
        /\ DOMAIN all_msgs = {zaddrs[i] : i \in 1..Len(zaddrs)}
        /\ Len(listed) = Len(zaddrs)
        /\ \A i \in 1..Len(zaddrs) :
              /\ listed[i].zaddr = zaddrs[i]
              /\ all_msgs[zaddrs[i]] = ExpectedMsgs(listed[i].txs)

\* check_msgs returned for two addresses: the first received a message, a
\* sentinel note and a second message, the other nothing.
C11_Witness ==
    /\ recv_pc = "returned"
    /\ Len(zaddrs) = 2
    /\ Len(listed[1].txs) = 3
    /\ IsSentinelMemo(listed[1].txs[2].memo)
    /\ Len(all_msgs[zaddrs[1]]) = 2
    /\ all_msgs[zaddrs[2]] = <<>>

\* The last request written was a `method` request.
LastRequestIs(method) ==
    requests # <<>> /\ requests[Len(requests)].method = method

\* C12: when the node answers a gettransaction request with error code -5
\* (transaction not in the wallet), gettransaction raises IndexError, for
\* the str txids the receive workflow passes as for any other.
C12_NotFoundIsIndexError ==
    ( /\ LastRequestIs("gettransaction")
      /\ response.error_kind = "object"
      /\ response.error.code = -5 ) => exc.type = "IndexError"

(***************************************************************************)
(* The JSON-RPC client, continued.                                         *)
(***************************************************************************)
\* C13: a response that carries no error (its error member null or missing)
\* and no result makes the call raise a JSON-RPC error with code -343 and no
\* exception of another kind; one with a null error and a result makes the
\* call return that result.
C13_MissingResultIsRpcError ==
    requests # <<>> =>
        /\ ( /\ response.error_kind \in {"null", "absent"}
             /\ ~response.has_result )
           => ( /\ exc.type = "JSONRPCError"
                /\ exc.error.code = -343 )
        /\ ( /\ response.error_kind = "null"
             /\ response.has_result )
           => ( /\ exc = NoExc
                /\ ret = response.result )

(***************************************************************************)
(* The send workflow, continued.                                           *)
(***************************************************************************)
Unrecognized(s) == s \notin {"executing", "success", "failed"}

\* The status the last poll returned.
LastObserved == observed[Len(observed)]

\* C14: when a status poll has returned a status that is none of
\* 'executing', 'success' and 'failed', and no more than 120 seconds have
\* passed since start_time, send_msg goes on polling: it has not returned,
\* and its next request is another z_getoperationstatus.
C14_UnrecognizedKeepsPolling ==
    ( /\ observed # <<>>
      /\ LastRequestIs("z_getoperationstatus")
      /\ exc = NoExc
      /\ Unrecognized(LastObserved)
      /\ now <= start_time + POLL_TIMEOUT ) => pc = "poll"

\* C15: an invocation that submitted and returned normally either observed
\* the status 'success' (Succeeded) or fetched the operation result after
\* the timeout (TimedOut), and not both; it never returns normally while the
\* last status it observed is neither 'success' nor followed by that fetch.
C15_ReturnsOnlyOnOutcome ==
    (pc = "returned" /\ Count("z_sendmany") = 1) =>
        /\ (observed # <<>> /\ LastObserved = "success")
           \/ (Count("z_getoperationresult") = 1 /\ printed.outcome = "TimedOut")
        /\ ~( /\ Saw("success")
              /\ Count("z_getoperationresult") = 1 )

\* C16: one invocation writes at most one z_sendmany request, and when any
\* of its RPC calls raises, that error leaves send_msg: the raising request
\* is the last one written.
C16_SubmitOnceAndStopOnError ==
    /\ Count("z_sendmany") <= 1
    /\ \A k \in 1..Len(requests) :
          requests[k].raised =>
              /\ k = Len(requests)
              /\ pc = "raised"
              /\ exc.type # "none"
              /\ response.error_kind = "object" => exc.error = response.error

\* A status poll inside the loop raised the node's error after z_sendmany
\* and two polls went through.
C16_Witness ==
    /\ pc = "raised"
    /\ Count("z_sendmany") = 1
    /\ Len(observed) = 2
    /\ LastRequestIs("z_getoperationstatus")
    /\ requests[Len(requests)].raised
    /\ exc.type = "InvalidParameterError"

\* A z_getoperationresult request is written in this step.
ResultRequested ==
    Count("z_getoperationresult")' > Count("z_getoperationresult")

\* C17: one invocation writes at most one z_getoperationresult request; it
\* writes it for the opid its z_sendmany returned, only when the last status
\* poll returned a status other than 'executing', 'success' and 'failed' and
\* more than 120 seconds have passed since start_time, and never after it
\* observed 'success' or 'failed'.
C17_ResultFetchedOnlyAfterTimeout ==
    /\ [] ( /\ Count("z_getoperationresult") <= 1
            /\ Count("z_getoperationresult") = 1 =>
                  /\ ~Saw("success") /\ ~Saw("failed")
                  /\ printed.outcome \notin {"Succeeded", "Failed"} )
    /\ [][ /\ ResultRequested =>
                /\ observed # <<>> /\ Unrecognized(LastObserved)
                /\ now > start_time + POLL_TIMEOUT
                /\ requests'[Len(requests')].arg = opid
           /\ (LastRequestIs("z_sendmany")' /\ exc' = NoExc) =>
                opid' = response'.result
           /\ opid # None => opid' = opid ]_vars

\* The result was fetched once and send_msg reported the time-out.
C17_Witness ==
    /\ pc = "returned"
    /\ Count("z_getoperationresult") = 1
    /\ printed.outcome = "TimedOut"
    /\ Len(observed) >= 2

(***************************************************************************)
(* The memo codec, continued.                                              *)
(***************************************************************************)
LowerHexDigits ==
    {"0", "1", "2", "3", "4", "5", "6", "7", "8", "9", "a", "b", "c", "d", "e", "f"}

\* C18: for an ASCII message format_amounts returns an array of exactly one
\* entry holding the destination address and the amount; the entry has no
\* memo member when the message is the empty string, and otherwise a memo
\* that writes every character of the message as the two hex digits of its
\* byte, with nothing added.
C18_FormatAmounts ==
    ( /\ fn_done
      /\ fn_in.fn = "format_amounts"
      /\ \A i \in 1..Len(fn_in.text) : fn_in.text[i] < 128 ) =>
        /\ fn_out.kind = "return"
        /\ Len(fn_out.value) = 1
        /\ LET entry == fn_out.value[1]
           IN  /\ entry.address = fn_in.receiver
               /\ entry.amount = fn_in.amount
               /\ entry.has_memo <=> fn_in.text # <<>>
               /\ entry.has_memo =>
                     /\ Len(entry.memo) = 2 * Len(fn_in.text)
                     /\ \A i \in 1..Len(fn_in.text) :
                           /\ entry.memo[2 * i - 1] \in LowerHexDigits
                           /\ entry.memo[2 * i] \in LowerHexDigits
                           /\ 16 * HexValue(entry.memo[2 * i - 1])
                                 + HexValue(entry.memo[2 * i]) = fn_in.text[i]

\* format_amounts was applied to "hi0" and wrote the memo 686930.
C18_Witness ==
    /\ fn_done
    /\ fn_in.fn = "format_amounts"
    /\ fn_in.text = <<104, 105, 48>>
    /\ fn_out.kind = "return"
    /\ fn_out.value[1].has_memo
    /\ fn_out.value[1].memo = <<"6", "8", "6", "9", "3", "0">>

IsHexDigit(ch) == ch \in LowerHexDigits \cup {"A", "B", "C", "D", "E", "F"}

\* m, its trailing '0' characters apart, cannot be read as ASCII text: its
\* length is odd, or one of its characters is no hex digit, or one of its
\* bytes is 0x80 or more.
Undecodable(m) ==
    LET s == Stripped(m)
    IN  \/ Len(s) % 2 = 1
        \/ \E i \in 1..Len(s) : ~IsHexDigit(s[i])
        \/ \E j \in 1..(Len(s) \div 2) : HexValue(s[2 * j - 1]) >= 8

\* C19: hex_decode raises a decode error, and returns neither a text nor
\* None, for every memo that, its trailing '0' characters stripped, is not
\* the sentinel "f6" and has odd length, a character that is no hex digit,
\* or a byte of 0x80 or more.
C19_DecodeFailsLoudly ==
    ( /\ fn_done
      /\ fn_in.fn = "hex_decode"
      /\ ~IsSentinelMemo(fn_in.memo)
      /\ Undecodable(fn_in.memo) ) =>
        /\ fn_out.kind = "raise"
        /\ fn_out.raises \in {"binascii.Error", "UnicodeDecodeError"}

\* hex_decode was given "8600", the byte 0x86 and padding, and raised.
C19_Witness ==
    /\ fn_done
    /\ fn_in.fn = "hex_decode"
    /\ fn_in.memo = <<"8", "6", "0", "0">>
    /\ fn_out.kind = "raise"
    /\ fn_out.raises = "UnicodeDecodeError"

(***************************************************************************)
(* The receive workflow, continued.                                        *)
(***************************************************************************)
ZerosOnly(m) == \A i \in 1..Len(m) : m[i] = "0"

\* C20: hex_decode gives None exactly for the memos that are "f6" once
\* their trailing '0' characters are stripped, and a text or an exception
\* for every other memo; a memo of '0' characters only decodes to the empty
\* text, and check_msgs fetches its transaction and returns a message with
\* an empty memo for it.
C20_AbsentOnlyForSentinel ==
    /\ \A k \in 1..Len(decodes) :
          /\ decodes[k].out.kind \in {"None", "text", "raise"}
          /\ decodes[k].out.kind = "None" <=> IsSentinelMemo(decodes[k].memo)
          /\ ZerosOnly(decodes[k].memo) =>
                decodes[k].out.kind = "text" /\ decodes[k].out.text = <<>>
    /\ recv_pc = "returned" =>
          \A i \in 1..Len(listed) : \A n \in 1..Len(listed[i].txs) :
              LET note == listed[i].txs[n]
              IN  ZerosOnly(note.memo) =>
                    /\ \E j \in 1..Len(all_msgs[listed[i].zaddr]) :
                          all_msgs[listed[i].zaddr][j] =
                              [time   |-> ctime(TxTime(note.txid)),
                               amount |-> note.amount,
                               memo   |-> <<>>]
                    /\ \E k \in 1..Len(requests) :
                          /\ requests[k].method = "gettransaction"
                          /\ requests[k].arg = note.txid.v

\* check_msgs returned after a sentinel note and a note whose memo is 000:
\* the first gave no message, the second a message with an empty memo.
C20_Witness ==
    /\ recv_pc = "returned"
    /\ Len(listed) = 1
    /\ Len(listed[1].txs) = 2
    /\ listed[1].txs[1].memo = <<"f", "6", "0", "0">>
    /\ listed[1].txs[2].memo = <<"0", "0", "0">>
    /\ Len(all_msgs[zaddrs[1]]) = 1
    /\ all_msgs[zaddrs[1]][1].memo = <<>>
    /\ Count("gettransaction") = 1

\* C21: check_msgs is all-or-nothing.  An RPC call or a memo decode that
\* fails is the last thing the invocation does: the exception leaves
\* check_msgs there, no request is written afterwards, and check_msgs does
\* not return, whatever it had collected for earlier addresses and notes.
C21_AllOrNothing ==
    /\ [] ( /\ \A k \in 1..Len(requests) :
                  requests[k].raised =>
                      /\ k = Len(requests)
                      /\ recv_pc = "raised"
                      /\ exc.type # "none"
            /\ \A k \in 1..Len(decodes) :
                  decodes[k].out.kind = "raise" =>
                      /\ k = Len(decodes)
                      /\ recv_pc = "raised"
                      /\ exc.type = decodes[k].out.raises
            /\ recv_pc = "returned" => exc = NoExc )
    /\ [][recv_pc # "raised"]_vars

\* A memo of the second address failed to decode after the first address
\* was scanned and its message stored: check_msgs raised.
C21_Witness ==
    /\ recv_pc = "raised"
    /\ Len(listed) = 2
    /\ DOMAIN all_msgs = {zaddrs[1]}
    /\ Len(all_msgs[zaddrs[1]]) = 1
    /\ decodes[Len(decodes)].out.kind = "raise"
    /\ exc.type = "binascii.Error"

====
